---- MODULE Spec2Model ----
(***************************************************************************)
(* A model of llm-plus-10k: the 10-K section locator (utils.py) and the    *)
(* cached financial-extraction pipeline (generate.py).                     *)
(*                                                                         *)
(* A filing text is modelled line by line.  Every line is one of the       *)
(* kinds below; the text of a document is the concatenation of its lines,  *)
(* each followed by "\n", and an offset is the number of characters        *)
(* before a position (markers start their line, so every offset the code   *)
(* works with is the offset of a line).                                    *)
(*    "item1"     Item 1. Business                                         *)
(*    "item1a"    Item 1A. Risk Factors                                    *)
(*    "item2"     Item 2. Properties                                       *)
(*    "item7"     Item 7. Management's Discussion                          *)
(*    "item8"     Item 8. Financial Statements                             *)
(*    "item9"     Item 9. Changes in and Disagreements                     *)
(*    "text"      Revenue grew.                                            *)
(*    "label"     ITEM 8.                                                  *)
(*    "itemized"  Partnerships     (content: one word, or two, that begins *)
(*                                 with "part" or "item")                  *)
(*    "pageno"    42                                                       *)
(*    "footer"    Apple Inc. | 2023 Form 10-K | 21                         *)
(*    "pagebreak" <PAGE>                                                   *)
(*    "blank"     (an empty or all-blank line)                             *)
(*    "cr"        (an empty or all-blank line ended by "\r" alone: no line  *)
(*                of its own for ^ and $, which look for "\n")              *)
(***************************************************************************)
EXTENDS Integers, Sequences, FiniteSets, TLC

VARIABLES
    text_10k,   \* extract_10k_sections: the filing text (a sequence of lines)
    located,    \* extract_10k_sections: its outcome (pending, returned, raised)
    cleaned,    \* history: clean_text of the text, and clean_text of that
    oracle,     \* the responses model.generate_content may give
    pc,         \* where the process is
    items,      \* the requested item names, in the caller's order
    fails,      \* get_document_financials: fails
    gen_res,    \* get_document_financials: gen_res
    empties,    \* history: invocations of this call that returned a falsy value
    attempts,   \* history: oracle invocations of this call
    waits,      \* history: time.sleep calls of this call
    ext,        \* the outcome of the get_document_financials call
    years,      \* filings.keys(): the corpus years in insertion order
    pkl,        \* the subject's pickle file in the cache directory
    cache,      \* get_company_financials: cache
    save_dict,  \* get_company_financials: save_dict
    res,        \* get_company_financials: res
    i,          \* get_company_financials: the loop index
    called,     \* history: the years get_document_financials was called for
    succeeded,  \* history: the years whose call returned
    hit,        \* history: the run returned at line 114
    again,      \* history: that run repeated the run before it, both cached
    prev,       \* history: the items of the returned run before that run
    result,     \* what the last finished call returned
    memo,       \* st.cache_data: what the function returned, by its arguments
    answered    \* history: the arguments of the call the memo answered

locVars == <<text_10k, located, cleaned>>
extVars == <<oracle, pc, items, fails, gen_res, empties, attempts, waits, ext>>
runVars ==
    <<years, pkl, cache, save_dict, res, i, called, succeeded, hit, again, prev, result,
      memo, answered>>
vars == <<locVars, extVars, runVars>>

----------------------------------------------------------------------------
(* Bounds of the model.                                                    *)

\* the longest filing text, in lines
MaxDocLen == 5
\* the longest text clean_text is applied to, in lines
MaxTextLen == 4
\* the longest item list whose fingerprint is compared
MaxItems == 3
\* the most falsy values the oracle returns within one call
MaxEmpty == 1
\* the most years of a corpus
MaxYears == 3
\* the most entries st.cache_data holds at a time
MaxMemo == 2

----------------------------------------------------------------------------
(* utils.py: extract_10k_sections                                          *)

\* The lines of the first part of a filing (items 1, 1A, 2) and of the
\* second (items 7, 8, 9), with content and noise lines.
PartOneLines == {"item1", "item1a", "item2", "text", "blank"}
PartTwoLines == {"item7", "item8", "item9", "text", "label"}

NoText == << >>

\* Each compiled pattern is the set of line kinds it matches.
item1_start == {"item1"}
item1_end == {"item1a", "item2"}
item1a_start == {"item1a"}
item1a_end == {"item2"}
item7_start == {"item7"}
item7_end == {"item8"}
item8_start == {"item8"}
item8_end == {"item9"}

\* The number of characters of a line, its line end included.
LineLen(line) ==
    CASE line = "item1" -> 17
      [] line = "item1a" -> 22
      [] line = "item2" -> 19
      [] line = "item7" -> 32
      [] line = "item8" -> 29
      [] line = "item9" -> 37
      [] line = "text" -> 14
      [] line = "itemized" -> 13
      [] line = "label" -> 8
      [] line = "pageno" -> 3
      [] line = "footer" -> 33
      [] line = "pagebreak" -> 7
      [] OTHER -> 1

\* len(text)
RECURSIVE Chars(_)
Chars(text) ==
    IF text = << >> THEN 0 ELSE LineLen(Head(text)) + Chars(Tail(text))

\* The offset of the k-th line (k from 1) in the text.
StartOf(text, k) == Chars(SubSeq(text, 1, k - 1))

\* [i.start() for i in reg.finditer(text)]: the 0-based offsets, ascending.
MatchStarts(reg, text) ==
    LET lines == SelectSeq([k \in 1..Len(text) |-> k],
                           LAMBDA k : text[k] \in reg)
    IN  [j \in 1..Len(lines) |-> StartOf(text, lines[j])]

\* text[s:e], for offsets s and e of lines.
Slice(text, s, e) ==
    LET inside == {k \in 1..Len(text) :
                      s <= StartOf(text, k) /\ StartOf(text, k) < e}
    IN  IF inside = {} THEN << >>
        ELSE SubSeq(text,
                    CHOOSE k \in inside : \A j \in inside : k <= j,
                    CHOOSE k \in inside : \A j \in inside : j <= k)

\* The nested loop over starts and ends: each start with the first end
\* after it, a start with no later end adding nothing.
RECURSIVE BuildRanges(_, _)
BuildRanges(starts, ends) ==
    IF starts = << >> THEN << >>
    ELSE LET s == Head(starts)
             later == SelectSeq(ends, LAMBDA e : s < e)
         IN  (IF later = << >> THEN << >> ELSE << <<s, Head(later)>> >>)
                 \o BuildRanges(Tail(starts), ends)

\* The argmax loop from position pos (1-based) on; gives max_range_ind,
\* 0-based.
RECURSIVE ArgMaxLoop(_, _, _, _)
ArgMaxLoop(ranges, pos, max_range, max_range_ind) ==
    IF pos > Len(ranges) THEN max_range_ind
    ELSE LET diff == ranges[pos][2] - ranges[pos][1]
         IN  IF diff > max_range
             THEN ArgMaxLoop(ranges, pos + 1, diff, pos - 1)
             ELSE ArgMaxLoop(ranges, pos + 1, max_range, max_range_ind)

\* A variant of the loop in which a later range of the same width wins.
RECURSIVE ArgMaxLoopLastWins(_, _, _, _)
ArgMaxLoopLastWins(ranges, pos, max_range, max_range_ind) ==
    IF pos > Len(ranges) THEN max_range_ind
    ELSE LET diff == ranges[pos][2] - ranges[pos][1]
         IN  IF diff >= max_range
             THEN ArgMaxLoopLastWins(ranges, pos + 1, diff, pos - 1)
             ELSE ArgMaxLoopLastWins(ranges, pos + 1, max_range, max_range_ind)

ArgMaxLastWins(ranges) == ArgMaxLoopLastWins(ranges, 1, 0, 0)

\* Lines 57-63: max_range = 0, max_range_ind = 0, and the loop.
ArgMax(ranges) == ArgMaxLoop(ranges, 1, 0, 0)

\* get_section: None when a pattern has no match, IndexError when the list
\* of ranges is empty, else the text of the widest range (range keeps
\* res_start and res_end).
get_section(text, reg_start, reg_end) ==
    LET starts == MatchStarts(reg_start, text)
        ends == MatchStarts(reg_end, text)
        ranges == BuildRanges(starts, ends)
        ind == ArgMax(ranges)
    IN  IF Len(starts) = 0 \/ Len(ends) = 0
        THEN [status |-> "None", range |-> <<0, 0>>, text |-> NoText]
        ELSE IF ind + 1 > Len(ranges)
        THEN [status |-> "IndexError", range |-> <<0, 0>>, text |-> NoText]
        ELSE [status |-> "ok",
              range |-> ranges[ind + 1],
              text |-> Slice(text, ranges[ind + 1][1], ranges[ind + 1][2])]

\* The kinds of line the four patterns of clean_text match.  The first
\* asks for no blank between PART or ITEM and the word after it.
part_item_header == {"label", "itemized"}
page_number == {"pageno"}
form_footer == {"footer"}
page_marker == {"pagebreak"}

\* A re.sub of clean_text whose pattern starts with ^.* : the lines the
\* pattern matches lose their text ("." takes the "\r" of "cr" lines before
\* them as well, which the last re.sub would remove anyway).
SubLines(text, reg) ==
    [k \in 1..Len(text) |-> IF text[k] \in reg THEN "blank" ELSE text[k]]

\* A re.sub of clean_text whose pattern starts with ^[^\S\r\n]* : a line
\* matches only where ^ does, at the start of the text or after a "\n".
SubLinesAtStart(text, reg) ==
    [k \in 1..Len(text) |->
        IF text[k] \in reg /\ (k = 1 \/ text[k - 1] # "cr")
        THEN "blank" ELSE text[k]]

\* The last re.sub of clean_text: with re.MULTILINE, ^ matches at every
\* line, so every run of blank lines goes, ended by "\n", "\r\n" or "\r".
RemoveEmptyLines(text) == SelectSeq(text, LAMBDA l : l \notin {"blank", "cr"})

\* clean_text; None and the empty text give the empty text.
clean_text(text) ==
    IF text = NoText THEN NoText
    ELSE RemoveEmptyLines(
             SubLines(SubLines(SubLinesAtStart(SubLinesAtStart(text,
                 part_item_header), page_number), form_footer), page_marker))

NoSections ==
    [business |-> NoText, risk |-> NoText, mda |-> NoText, financials |-> NoText]

\* extract_10k_sections: the four sections in order; an IndexError of
\* get_section leaves the function at once.  spans keeps what get_section
\* gave for each section.
extract_10k_sections(text) ==
    LET business == get_section(text, item1_start, item1_end)
        risk == get_section(text, item1a_start, item1a_end)
        mda == get_section(text, item7_start, item7_end)
        financials == get_section(text, item8_start, item8_end)
    IN  IF \E sec \in {business, risk, mda, financials} :
               sec.status = "IndexError"
        THEN [status |-> "raised", error |-> "IndexError",
              res |-> NoSections,
              spans |-> [business |-> business, risk |-> risk,
                         mda |-> mda, financials |-> financials]]
        ELSE [status |-> "returned", error |-> "none",
              res |-> [business |-> clean_text(business.text),
                       risk |-> clean_text(risk.text),
                       mda |-> clean_text(mda.text),
                       financials |-> clean_text(financials.text)],
              spans |-> [business |-> business, risk |-> risk,
                         mda |-> mda, financials |-> financials]]

NoSpan == [status |-> "None", range |-> <<0, 0>>, text |-> NoText]

Pending ==
    [status |-> "pending", error |-> "none", res |-> NoSections,
     spans |-> [business |-> NoSpan, risk |-> NoSpan,
                mda |-> NoSpan, financials |-> NoSpan]]

RECURSIVE SeqsUpTo(_, _)
SeqsUpTo(S, n) ==
    IF n = 0 THEN {<< >>}
    ELSE LET shorter == SeqsUpTo(S, n - 1)
         IN  shorter \cup {Append(t, x) : t \in shorter, x \in S}

Docs == SeqsUpTo(PartOneLines, MaxDocLen) \cup SeqsUpTo(PartTwoLines, MaxDocLen)

\* The lines of the texts clean_text is applied to.
CleanLines ==
    {"text", "itemized", "blank", "cr", "label", "pageno", "footer", "pagebreak"}

Texts == SeqsUpTo(CleanLines, MaxTextLen)

----------------------------------------------------------------------------
(* generate.py: the data of get_document_financials                        *)

\* Item names are sequences of characters.
NetSales == <<"N", " ", "s">>
GrossMargin == <<"g", "m">>
OtherKey == <<"x">>

\* The item lists a caller asks for.
ItemLists == {<<NetSales>>, <<NetSales, GrossMargin>>, <<GrossMargin, NetSales>>}

\* item.replace(' ', '_')
Replace(item) ==
    [k \in 1..Len(item) |-> IF item[k] = " " THEN "_" ELSE item[k]]

\* The keys named in request_str.
RequestKeys(its) == {Replace(its[k]) : k \in 1..Len(its)}

EmptyDict == << >>

\* JSON values, written as they stand in the response text.
NA == "\"N/A\""
JsonValues == {NA, "\"1000000\"", "5", "2.5", "\"abc\""}

\* int(v) of a decoded JSON value: a string of digits, a number, a float
\* (truncated); any other string raises ValueError.
Coercible(v) == v \in {"\"1000000\"", "5", "2.5"}
IntOf(v) ==
    CASE v = "\"1000000\"" -> 1000000
      [] v = "5" -> 5
      [] v = "2.5" -> 2
      [] OTHER -> 0

PyNone == [type |-> "NoneType", val |-> 0]
PyInt(n) == [type |-> "int", val |-> n]

\* An oracle response: gen_res.text is malformed JSON, the JSON null, the
\* empty JSON array, or a JSON object.
NoResponse == [kind |-> "None", obj |-> EmptyDict]
Malformed == [kind |-> "malformed", obj |-> EmptyDict]
JsonNull == [kind |-> "null", obj |-> EmptyDict]
JsonEmptyArray == [kind |-> "array", obj |-> EmptyDict]
JsonObject(f) == [kind |-> "object", obj |-> f]

ResponseKeys == {Replace(NetSales), Replace(GrossMargin), OtherKey}

PartialMaps(K, V) == UNION {[D -> V] : D \in SUBSET K}

\* Every response of the model, and the few a whole run is checked with.
AllResponses ==
    {Malformed, JsonNull, JsonEmptyArray}
        \cup {JsonObject(f) : f \in PartialMaps(ResponseKeys, JsonValues)}
RunResponses ==
    {Malformed, JsonObject([k \in {Replace(NetSales)} |-> "\"1000000\""])}

NoOutcome ==
    [status |-> "pending", error |-> "none",
     value |-> [kind |-> "None", map |-> EmptyDict]]
Raised(e) ==
    [status |-> "raised", error |-> e,
     value |-> [kind |-> "None", map |-> EmptyDict]]
Returned(k, m) ==
    [status |-> "returned", error |-> "none", value |-> [kind |-> k, map |-> m]]

\* The loop that converts the values of json_res.
ConvertValues(obj) ==
    [k \in DOMAIN obj |-> IF obj[k] # NA THEN PyInt(IntOf(obj[k])) ELSE PyNone]

\* A variant that leaves out the values that are no integers.
ParseResponseLenient(r) ==
    CASE r.kind = "malformed" -> Raised("JSONDecodeError")
      [] r.kind = "null" -> Raised("TypeError")
      [] r.kind = "array" -> Returned("list", EmptyDict)
      [] OTHER ->
           Returned("dict",
               ConvertValues(
                   [k \in {x \in DOMAIN r.obj :
                               r.obj[x] = NA \/ Coercible(r.obj[x])}
                       |-> r.obj[k]]))

\* Lines 69-75: json.loads and the conversion loop.
ParseResponse(r) ==
    CASE r.kind = "malformed" -> Raised("JSONDecodeError")
      [] r.kind = "null" -> Raised("TypeError")
      [] r.kind = "array" -> Returned("list", EmptyDict)
      [] OTHER ->
           IF \E k \in DOMAIN r.obj : r.obj[k] # NA /\ ~Coercible(r.obj[k])
           THEN Raised("ValueError")
           ELSE Returned("dict", ConvertValues(r.obj))

----------------------------------------------------------------------------
(* generate.py: the data of get_company_financials                         *)

\* Code points, for Python's comparison of strings.
Ord(c) ==
    CASE c = " " -> 32
      [] c = "N" -> 78
      [] c = "_" -> 95
      [] c = "g" -> 103
      [] c = "m" -> 109
      [] c = "s" -> 115
      [] OTHER -> 120

RECURSIVE StrLess(_, _)
StrLess(a, b) ==
    IF a = << >> THEN b # << >>
    ELSE IF b = << >> THEN FALSE
    ELSE IF Ord(Head(a)) # Ord(Head(b)) THEN Ord(Head(a)) < Ord(Head(b))
    ELSE StrLess(Tail(a), Tail(b))

RECURSIVE Insert(_, _)
Insert(x, s) ==
    IF s = << >> THEN <<x>>
    ELSE IF StrLess(x, Head(s)) THEN <<x>> \o s
    ELSE <<Head(s)>> \o Insert(x, Tail(s))

\* sorted(items)
RECURSIVE sorted(_)
sorted(l) ==
    IF l = << >> THEN << >>
    ELSE Insert(l[Len(l)], sorted(SubSeq(l, 1, Len(l) - 1)))

\* A variant that digests the list in the caller's order.
unsorted_query_hash(its) == its

\* hashlib.md5(str(sorted(items)).encode()).hexdigest(): the digest stands
\* for the text it digests, the sorted list.
items_query_hash(its) == sorted(its)

Years == 2018..(2017 + MaxYears)

\* The corpora: every order of every set of years but the empty one
\* (get_10k_filing_texts raises when there is no filing).
Corpora ==
    {ys \in SeqsUpTo(Years, MaxYears) :
        /\ ys # << >>
        /\ \A a, b \in 1..Len(ys) : a # b => ys[a] # ys[b]}

\* The pickle file: absent, written whole, or cut off by a crash in the
\* middle of a write (it no longer loads).
Absent == [state |-> "absent", dict |-> EmptyDict]
Truncated == [state |-> "truncated", dict |-> EmptyDict]
Valid(d) == [state |-> "valid", dict |-> d]

NoResult == [kind |-> "None", map |-> EmptyDict]
Result(m) == [kind |-> "dict", map |-> m]

\* d[k] = v
DictSet(d, k, v) ==
    [x \in DOMAIN d \cup {k} |-> IF x = k THEN v ELSE d[x]]

\* The memo of st.cache_data (line 78): the value the function returned,
\* under the arguments it was called with.  filings and cache_dir are the
\* same in every call of a run of the model, so items and cache are what
\* tells two calls apart.
NoMemo == << >>
Args(its, c) == <<its, c>>
NoArgs == Args(<< >>, FALSE)

\* main.py, line 26: st.cache_data.clear() empties the memo.
Cleared(m, cleared) == IF cleared THEN NoMemo ELSE m

----------------------------------------------------------------------------
(* generate.py: get_document_financials, step by step                      *)

NoCall ==
    /\ fails = 0
    /\ gen_res = NoResponse
    /\ empties = 0
    /\ attempts = 0
    /\ waits = 0
    /\ ext = NoOutcome

\* Lines 43-44, at the start of a call: fails = 0, gen_res = None.
StartCall ==
    /\ fails' = 0
    /\ gen_res' = NoResponse
    /\ empties' = 0
    /\ attempts' = 0
    /\ waits' = 0
    /\ ext' = NoOutcome

\* The locals of a finished call are gone.
EndCall ==
    /\ fails' = 0
    /\ gen_res' = NoResponse
    /\ empties' = 0
    /\ attempts' = 0
    /\ waits' = 0
    /\ ext' = NoOutcome

\* A variant that allows one failure more before it raises.
OracleRaisesOnceMore ==
    /\ fails' = fails + 1
    /\ attempts' = attempts + 1
    /\ IF fails + 1 > 3
       THEN /\ pc' = "ext_done"
            /\ ext' = Raised("OracleError")
            /\ waits' = waits
       ELSE /\ pc' = "gen"
            /\ ext' = ext
            /\ waits' = waits + 1
    /\ UNCHANGED <<gen_res, empties>>

\* A variant that sleeps after every failure, the one it raises as well.
OracleRaisesAfterSleep ==
    /\ fails' = fails + 1
    /\ attempts' = attempts + 1
    /\ waits' = waits + 1
    /\ IF fails + 1 > 2
       THEN /\ pc' = "ext_done"
            /\ ext' = Raised("OracleError")
       ELSE /\ pc' = "gen"
            /\ ext' = ext
    /\ UNCHANGED <<gen_res, empties>>

\* The except branch, lines 58-64: the third failure is raised, an earlier
\* one sleeps and goes round the loop.
OracleRaises ==
    /\ fails' = fails + 1
    /\ attempts' = attempts + 1
    /\ IF fails + 1 > 2
       THEN /\ pc' = "ext_done"
            /\ ext' = Raised("OracleError")
            /\ waits' = waits
       ELSE /\ pc' = "gen"
            /\ ext' = ext
            /\ waits' = waits + 1
    /\ UNCHANGED <<gen_res, empties>>

\* generate_content returns a falsy value: `while not gen_res` goes round
\* again, and fails is not counted.
OracleReturnsFalsy ==
    /\ empties < MaxEmpty
    /\ empties' = empties + 1
    /\ attempts' = attempts + 1
    /\ UNCHANGED <<pc, fails, gen_res, waits, ext>>

\* generate_content returns a response: the loop ends.
OracleResponds(r) ==
    /\ gen_res' = r
    /\ attempts' = attempts + 1
    /\ pc' = "parse"
    /\ UNCHANGED <<fails, empties, waits, ext>>

\* One turn of the loop of lines 45-64: one oracle invocation.
Generate ==
    /\ pc = "gen"
    /\ \/ OracleRaises
       \/ OracleReturnsFalsy
       \/ \E r \in oracle : OracleResponds(r)
    /\ UNCHANGED <<oracle, items>>
    /\ UNCHANGED <<locVars, runVars>>

\* A variant that asks the oracle again when the response does not parse.
ParseRetrying ==
    /\ pc = "parse"
    /\ IF ParseResponse(gen_res).status = "raised"
       THEN /\ pc' = "gen"
            /\ gen_res' = NoResponse
            /\ ext' = ext
       ELSE /\ pc' = "ext_done"
            /\ gen_res' = gen_res
            /\ ext' = ParseResponse(gen_res)
    /\ succeeded' = IF ext'.status = "returned" /\ called # << >>
                    THEN succeeded \cup {called[Len(called)]}
                    ELSE succeeded
    /\ UNCHANGED <<oracle, items, fails, empties, attempts, waits>>
    /\ UNCHANGED <<years, pkl, cache, save_dict, res, i, called, hit, again, prev, result>>
    /\ UNCHANGED locVars
    /\ UNCHANGED <<memo, answered>>

\* Lines 66-75: the response is parsed and converted, once.
Parse ==
    /\ pc = "parse"
    /\ ext' = ParseResponse(gen_res)
    /\ pc' = "ext_done"
    /\ succeeded' = IF ext'.status = "returned" /\ called # << >>
                    THEN succeeded \cup {called[Len(called)]}
                    ELSE succeeded
    /\ UNCHANGED <<oracle, items, fails, gen_res, empties, attempts, waits>>
    /\ UNCHANGED <<years, pkl, cache, save_dict, res, i, called, hit, again, prev, result>>
    /\ UNCHANGED locVars
    /\ UNCHANGED <<memo, answered>>

----------------------------------------------------------------------------
(* generate.py: get_company_financials, step by step.  A call is answered   *)
(* by st.cache_data (Memoized) or runs the body (Call and the steps after   *)
(* it): a run is a call that runs the body.                                 *)

\* A variant that, on a hit, writes the file anew with the entry it returns.
CallRewriting(its, c, cleared, cwd, readable) ==
    LET m == Cleared(memo, cleared)
    IN  /\ pc \in {"idle", "returned", "memoized", "raised", "crashed"}
        /\ Args(its, c) \notin DOMAIN m
        /\ Cardinality(DOMAIN m) < MaxMemo
        /\ items' = its
        /\ cache' = c
        /\ called' = << >>
        /\ succeeded' = {}
        /\ res' = EmptyDict
        /\ i' = 0
        /\ answered' = NoArgs
        /\ IF ~cwd \/ (c /\ (pkl.state = "truncated" \/ ~readable))
           THEN /\ pc' = "raised"
                /\ save_dict' = EmptyDict
                /\ hit' = FALSE
                /\ again' = FALSE
                /\ prev' = << >>
                /\ result' = NoResult
                /\ memo' = m
           ELSE LET loaded == IF c /\ pkl.state = "valid" THEN pkl.dict
                              ELSE EmptyDict
                    h == items_query_hash(its)
                IN  /\ save_dict' = loaded
                    /\ IF h \in DOMAIN loaded
                       THEN /\ pc' = "returned"
                            /\ hit' = TRUE
                            /\ again' =
                                  (pc = "returned" /\ cache /\ c /\ its = items)
                            /\ prev' = IF pc = "returned" THEN items ELSE << >>
                            /\ result' = Result(loaded[h])
                            /\ memo' = DictSet(m, Args(its, c), result')
                       ELSE /\ pc' = "loop"
                            /\ hit' = FALSE
                            /\ again' = FALSE
                            /\ prev' = << >>
                            /\ result' = NoResult
                            /\ memo' = m
        /\ UNCHANGED <<oracle, fails, gen_res, empties, attempts, waits, ext>>
        /\ pkl' = IF cwd /\ c /\ readable /\ pkl.state = "valid"
                       /\ items_query_hash(its) \in DOMAIN pkl.dict
                   THEN Valid([k \in {items_query_hash(its)} |-> pkl.dict[k]])
                   ELSE pkl
        /\ UNCHANGED years
        /\ UNCHANGED locVars

\* Line 78: st.cache_data holds a value for these arguments and returns it;
\* the body of the function does not run.  There are no items, cache,
\* save_dict or res of this call (as after Crash): the arguments it was
\* called with are in answered.
Memoized(its, c) ==
    /\ pc \in {"idle", "returned", "memoized", "raised", "crashed"}
    /\ Args(its, c) \in DOMAIN memo
    /\ pc' = "memoized"
    /\ result' = memo[Args(its, c)]
    /\ answered' = Args(its, c)
    /\ memo' = memo
    /\ items' = << >>
    /\ cache' = FALSE
    /\ save_dict' = EmptyDict
    /\ res' = EmptyDict
    /\ i' = 0
    /\ called' = << >>
    /\ succeeded' = {}
    /\ hit' = FALSE
    /\ again' = FALSE
    /\ prev' = << >>
    /\ UNCHANGED <<oracle, fails, gen_res, empties, attempts, waits, ext>>
    /\ UNCHANGED <<years, pkl>>
    /\ UNCHANGED locVars

\* Lines 78 and 99-117: a call with arguments st.cache_data holds no value
\* for runs the body, and the entries st.cache_data holds stay as they are
\* (unless st.cache_data.clear() has run since the call before, as at line
\* 26 of main.py after a call: `cleared`).  Line 101 raises when
\* os.getcwd() does (the working directory is gone: cwd is false),
\* whatever cache is.  Then the store is loaded when cache is set and the
\* file exists, the query is looked up, and a hit returns, which
\* st.cache_data records.  With cache set, line 106 or 107 raises when the
\* path cannot be examined or the file cannot be opened or read (readable
\* is false, whether there is a file or not), or when the file is cut off.
\* An exception is not recorded.  (Bound of the model: the body runs while
\* st.cache_data holds fewer than MaxMemo entries.)
Call(its, c, cleared, cwd, readable) ==
    LET m == Cleared(memo, cleared)
    IN  /\ pc \in {"idle", "returned", "memoized", "raised", "crashed"}
        /\ Args(its, c) \notin DOMAIN m
        /\ Cardinality(DOMAIN m) < MaxMemo
        /\ items' = its
        /\ cache' = c
        /\ called' = << >>
        /\ succeeded' = {}
        /\ res' = EmptyDict
        /\ i' = 0
        /\ answered' = NoArgs
        /\ IF ~cwd \/ (c /\ (pkl.state = "truncated" \/ ~readable))
           THEN \* os.getcwd, Path.exists, open or pickle.load raises
                /\ pc' = "raised"
                /\ save_dict' = EmptyDict
                /\ hit' = FALSE
                /\ again' = FALSE
                /\ prev' = << >>
                /\ result' = NoResult
                /\ memo' = m
           ELSE LET loaded == IF c /\ pkl.state = "valid" THEN pkl.dict
                              ELSE EmptyDict
                    h == items_query_hash(its)
                IN  /\ save_dict' = loaded
                    /\ IF h \in DOMAIN loaded
                       THEN /\ pc' = "returned"
                            /\ hit' = TRUE
                            /\ again' =
                                  (pc = "returned" /\ cache /\ c /\ its = items)
                            /\ prev' = IF pc = "returned" THEN items ELSE << >>
                            /\ result' = Result(loaded[h])
                            /\ memo' = DictSet(m, Args(its, c), result')
                       ELSE /\ pc' = "loop"
                            /\ hit' = FALSE
                            /\ again' = FALSE
                            /\ prev' = << >>
                            /\ result' = NoResult
                            /\ memo' = m
        /\ UNCHANGED <<oracle, fails, gen_res, empties, attempts, waits, ext>>
        /\ UNCHANGED <<years, pkl>>
        /\ UNCHANGED locVars

\* Lines 120-124: the next index of range(0, len(years), 2), or the end of
\* the loop.
NextYear ==
    /\ pc = "loop"
    /\ IF i < Len(years)
       THEN /\ pc' = "gen"
            /\ called' = Append(called, years[i + 1])
            /\ StartCall
       ELSE /\ pc' = "save"
            /\ called' = called
            /\ UNCHANGED <<fails, gen_res, empties, attempts, waits, ext>>
    /\ UNCHANGED <<oracle, items>>
    /\ UNCHANGED <<years, pkl, cache, save_dict, res, i, succeeded, hit, again, prev,
                   result>>
    /\ UNCHANGED locVars
    /\ UNCHANGED <<memo, answered>>

\* A variant whose failed year ends the loop.
HandleAborting ==
    /\ pc = "ext_done"
    /\ IF ext.status = "returned"
       THEN /\ res' = DictSet(res, years[i + 1], ext.value)
            /\ pc' = "loop"
       ELSE /\ res' = res
            /\ pc' = "save"
    /\ i' = i + 2
    /\ EndCall
    /\ UNCHANGED <<oracle, items>>
    /\ UNCHANGED <<years, pkl, cache, save_dict, called, succeeded, hit, again, prev,
                   result>>
    /\ UNCHANGED locVars
    /\ UNCHANGED <<memo, answered>>

\* Lines 123-128: the value is stored under the year, or the exception is
\* caught and printed; the loop goes on either way.
Handle ==
    /\ pc = "ext_done"
    /\ IF ext.status = "returned"
       THEN res' = DictSet(res, years[i + 1], ext.value)
       ELSE res' = res
    /\ i' = i + 2
    /\ pc' = "loop"
    /\ EndCall
    /\ UNCHANGED <<oracle, items>>
    /\ UNCHANGED <<years, pkl, cache, save_dict, called, succeeded, hit, again, prev,
                   result>>
    /\ UNCHANGED locVars
    /\ UNCHANGED <<memo, answered>>

\* A variant that returns the result without writing the file.
PersistUnsaved ==
    /\ pc = "save"
    /\ save_dict' = DictSet(save_dict, items_query_hash(items), res)
    /\ pkl' = pkl
    /\ result' = Result(res)
    /\ pc' = "returned"
    /\ UNCHANGED <<oracle, items, fails, gen_res, empties, attempts, waits, ext>>
    /\ UNCHANGED <<years, cache, res, i, called, succeeded, hit, again, prev>>
    /\ UNCHANGED locVars
    /\ memo' = DictSet(memo, Args(items, cache), Result(res))
    /\ answered' = answered

\* A variant that persists a result only when every sampled year is in it.
PersistWhenComplete ==
    /\ pc = "save"
    /\ IF Cardinality(DOMAIN res) = Len(called)
       THEN /\ save_dict' = DictSet(save_dict, items_query_hash(items), res)
            /\ pkl' = Valid(save_dict')
       ELSE /\ save_dict' = save_dict
            /\ pkl' = pkl
    /\ result' = Result(res)
    /\ pc' = "returned"
    /\ UNCHANGED <<oracle, items, fails, gen_res, empties, attempts, waits, ext>>
    /\ UNCHANGED <<years, cache, res, i, called, succeeded, hit, again, prev>>
    /\ UNCHANGED locVars
    /\ memo' = DictSet(memo, Args(items, cache), Result(res))
    /\ answered' = answered

\* Lines 130-138: the result goes into save_dict, the file is written
\* whole, and the result is returned.
Persist ==
    /\ pc = "save"
    /\ save_dict' = DictSet(save_dict, items_query_hash(items), res)
    /\ pkl' = Valid(save_dict')
    /\ result' = Result(res)
    /\ pc' = "returned"
    /\ UNCHANGED <<oracle, items, fails, gen_res, empties, attempts, waits, ext>>
    /\ UNCHANGED <<years, cache, res, i, called, succeeded, hit, again, prev>>
    /\ UNCHANGED locVars
    /\ memo' = DictSet(memo, Args(items, cache), Result(res))
    /\ answered' = answered

\* A variant that swallows the error of the write and returns the result.
PersistFailsQuietly ==
    /\ pc = "save"
    /\ pc' = "returned"
    /\ pkl' \in {pkl, Truncated}
    /\ save_dict' = DictSet(save_dict, items_query_hash(items), res)
    /\ result' = Result(res)
    /\ UNCHANGED <<oracle, items, fails, gen_res, empties, attempts, waits, ext>>
    /\ UNCHANGED <<years, cache, res, i, called, succeeded, hit, again, prev>>
    /\ UNCHANGED locVars
    /\ memo' = DictSet(memo, Args(items, cache), Result(res))
    /\ answered' = answered

\* Lines 133-136 raise (mkdir or open fails: the file is as it was; the
\* dump fails after open(pkl_path, "wb"): the file is cut off).  Nothing
\* catches the exception: it leaves get_company_financials, whose locals
\* are gone.
PersistFails ==
    /\ pc = "save"
    /\ pc' = "raised"
    /\ pkl' \in {pkl, Truncated}
    /\ save_dict' = EmptyDict
    /\ res' = EmptyDict
    /\ i' = 0
    /\ called' = << >>
    /\ succeeded' = {}
    /\ hit' = FALSE
    /\ again' = FALSE
    /\ prev' = << >>
    /\ result' = NoResult
    /\ UNCHANGED <<oracle, items, fails, gen_res, empties, attempts, waits, ext>>
    /\ UNCHANGED <<years, cache>>
    /\ UNCHANGED locVars
    /\ UNCHANGED <<memo, answered>>

\* The process dies during a run: within lines 99-117 of a call that has
\* begun (pc is still that of the run before), or later.  The memo of
\* st.cache_data is in the memory of the process and goes with it.
\* Within the persistence step the file is as it was (before open), cut
\* off (after open(pkl_path, "wb"), which truncates, and before the dump
\* is complete), or written whole (after the with block has closed it and
\* before `return res`).
Crash ==
    /\ pc \in {"idle", "returned", "memoized", "raised", "crashed",
               "loop", "gen", "parse", "ext_done", "save"}
    /\ pc' = "crashed"
    /\ IF pc = "save"
       THEN pkl' \in {pkl, Truncated,
                      Valid(DictSet(save_dict, items_query_hash(items), res))}
       ELSE pkl' = pkl
    /\ EndCall
    /\ items' = << >>
    /\ cache' = FALSE
    /\ save_dict' = EmptyDict
    /\ res' = EmptyDict
    /\ i' = 0
    /\ called' = << >>
    /\ succeeded' = {}
    /\ hit' = FALSE
    /\ again' = FALSE
    /\ prev' = << >>
    /\ result' = NoResult
    /\ UNCHANGED <<oracle, years>>
    /\ UNCHANGED locVars
    /\ memo' = NoMemo
    /\ answered' = NoArgs

\* A call of extract_10k_sections on the filing text.
Locate ==
    /\ located.status = "pending"
    /\ located' = extract_10k_sections(text_10k)
    /\ UNCHANGED <<text_10k, cleaned>>
    /\ UNCHANGED <<extVars, runVars>>

\* A call of clean_text: on the text, and then on what it returned.
Clean ==
    /\ Len(cleaned) < 2
    /\ cleaned' = Append(cleaned,
                     clean_text(IF cleaned = << >> THEN text_10k
                                ELSE cleaned[Len(cleaned)]))
    /\ UNCHANGED <<text_10k, located>>
    /\ UNCHANGED <<extVars, runVars>>

----------------------------------------------------------------------------
(* The specifications.                                                     *)

NoRun ==
    /\ cache = FALSE
    /\ save_dict = EmptyDict
    /\ res = EmptyDict
    /\ i = 0
    /\ called = << >>
    /\ succeeded = {}
    /\ hit = FALSE
    /\ again = FALSE
    /\ prev = << >>
    /\ result = NoResult
    /\ memo = NoMemo
    /\ answered = NoArgs

\* Calls of get_company_financials for one subject, over any corpus, from
\* the start of a process: no store persisted yet, and nothing in the memo
\* of st.cache_data.
Init ==
    /\ text_10k = NoText
    /\ located = Pending
    /\ cleaned = << >>
    /\ oracle = RunResponses
    /\ pc = "idle"
    /\ items = << >>
    /\ NoCall
    /\ years \in Corpora
    /\ pkl = Absent
    /\ NoRun

Next ==
    \/ \E its \in ItemLists, c \in BOOLEAN :
           \/ Memoized(its, c)
           \/ \E cleared \in BOOLEAN, cwd \in BOOLEAN, readable \in BOOLEAN :
                  Call(its, c, cleared, cwd, readable)
    \/ NextYear
    \/ Generate
    \/ Parse
    \/ Handle
    \/ Persist
    \/ PersistFails
    \/ Crash

Spec == Init /\ [][Next]_vars

\* One call of get_document_financials, on any item list, with an oracle
\* that may give any response.
InitExtract ==
    /\ text_10k = NoText
    /\ located = Pending
    /\ cleaned = << >>
    /\ oracle = AllResponses
    /\ pc = "gen"
    /\ items \in ItemLists
    /\ NoCall
    /\ years = << >>
    /\ pkl = Absent
    /\ NoRun

NextExtract == Generate \/ Parse

SpecExtract == InitExtract /\ [][NextExtract]_vars

\* One call of extract_10k_sections, on any filing text.
InitLocate ==
    /\ text_10k \in Docs
    /\ located = Pending
    /\ cleaned = << >>
    /\ oracle = RunResponses
    /\ pc = "idle"
    /\ items = << >>
    /\ NoCall
    /\ years = << >>
    /\ pkl = Absent
    /\ NoRun

NextLocate == Locate

SpecLocate == InitLocate /\ [][NextLocate]_vars

\* clean_text on any text, and again on its result.
InitClean ==
    /\ text_10k \in Texts
    /\ located = Pending
    /\ cleaned = << >>
    /\ oracle = RunResponses
    /\ pc = "idle"
    /\ items = << >>
    /\ NoCall
    /\ years = << >>
    /\ pkl = Absent
    /\ NoRun

NextClean == Clean

SpecClean == InitClean /\ [][NextClean]_vars

----------------------------------------------------------------------------
(* The claims.                                                             *)

Range(seq) == {seq[k] : k \in DOMAIN seq}

\* The years at the indices of range(0, len(years), 2).
Sampled(ys) == {ys[k] : k \in {j \in 1..Len(ys) : j % 2 = 1}}

\* The years at positions 0, 2, 4, ... of the ascending list of the years.
AscendingSample(ys) ==
    {y \in Range(ys) : Cardinality({z \in Range(ys) : z < y}) % 2 = 0}

\* C1: a run right after a returned run, both with cache=True and the same
\* items, whose load of the file does not raise, returns within the call
\* itself (a hit at line 114, so no oracle invocation belongs to it) and
\* returns the result the first one returned.
C1_CacheRoundTrip ==
    [][(pc = "returned" /\ cache /\ cache' /\ items' = items
          /\ pc' # "raised")
          => /\ pc' = "returned"
             /\ hit'
             /\ called' = << >>
             /\ attempts' = 0
             /\ result' = result]_vars

\* The second of two such runs has returned a result the oracle gave.
C1_Witness ==
    /\ pc = "returned"
    /\ hit
    /\ again
    /\ result.map # EmptyDict

\* C2: a run that persists its result leaves every fingerprint of the
\* store in the store, and the entries of the other fingerprints as they
\* were.
C2_NeverEvicts ==
    [][(pc = "save" /\ pc' = "returned")
          => \A fp \in DOMAIN pkl.dict :
                /\ fp \in DOMAIN pkl'.dict
                /\ fp # items_query_hash(items)
                      => pkl'.dict[fp] = pkl.dict[fp]]_vars

\* C3: on a miss the years the oracle is invoked for are the years at
\* positions 0, 2, 4, ... of the ascending list of the corpus years.
C3_StrideAscending ==
    (pc = "returned" /\ ~hit) => Range(called) = AscendingSample(years)

\* C4: a call all of whose invocations raise makes exactly 3 and then
\* raises; the run skips that year and goes on with the next sampled year,
\* whose call starts with no failure counted; the run returns what the
\* other years gave.
C4_RetryBound ==
    [][/\ (pc' = "gen" /\ empties' = 0)
             => (attempts' = fails' /\ fails' <= 2)
       /\ (pc' = "ext_done" /\ empties' = 0 /\ gen_res' = NoResponse)
             => (attempts' = 3 /\ ext' = Raised("OracleError"))
       /\ (pc = "ext_done" /\ ext.status = "raised" /\ pc' # "crashed")
             => (pc' = "loop" /\ res' = res /\ i' = i + 2)
       /\ (pc = "loop" /\ i < Len(years) /\ pc' # "crashed")
             => (pc' = "gen" /\ fails' = 0 /\ attempts' = 0
                 /\ called' = Append(called, years[i + 1]))
       /\ (pc = "save" /\ pc' = "returned")
             => (result' = Result(res) /\ DOMAIN res = succeeded)]_vars

\* A year has used up its 3 attempts in a run where another year's call
\* returned.
C4_Witness ==
    /\ pc = "ext_done"
    /\ ext = Raised("OracleError")
    /\ attempts = 3
    /\ empties = 0
    /\ Len(called) = 2
    /\ succeeded = {called[1]}

\* C5: no failure of a year's extraction makes the run raise; a run that
\* misses calls the extraction for every sampled year, and returns a
\* mapping whose years are exactly the sampled years whose call returned.
C5_PartialFailure ==
    [][/\ pc \in {"loop", "gen", "parse", "ext_done"} => pc' # "raised"
       /\ (pc' = "returned" /\ ~hit')
             => /\ Range(called') = Sampled(years)
                /\ succeeded' \subseteq Range(called')
                /\ result'.kind = "dict"
                /\ DOMAIN result'.map = succeeded']_vars

\* A run has returned the later year after the first sampled year failed.
C5_Witness ==
    /\ pc = "returned"
    /\ ~hit
    /\ Len(called) = 2
    /\ succeeded = {called[2]}
    /\ DOMAIN result.map = {called[2]}

FormatErrors == {"JSONDecodeError", "TypeError", "ValueError"}

\* C6: once an invocation has returned a response the call makes no other:
\* the response is parsed once and the call ends, and a call that ends in
\* a response-format error has made the invocations that raised or gave
\* nothing, and the one that gave the response.
C6_FormatErrorNotRetried ==
    [][/\ gen_res # NoResponse => attempts' = attempts
       /\ pc = "parse" => pc' = "ext_done"
       /\ (pc' = "ext_done" /\ ext'.error \in FormatErrors)
             => /\ gen_res' # NoResponse
                /\ attempts' = fails' + empties' + 1]_vars

\* The first invocation gave a response with a value that is no integer,
\* and the call has failed after that one invocation.
C6_Witness ==
    /\ pc = "ext_done"
    /\ ext = Raised("ValueError")
    /\ attempts = 1

\* The spec's normal form of an item name: space to underscore, lowercase.
Lower(c) == IF c = "N" THEN "n" ELSE c
Normalized(item) == [k \in 1..Len(item) |-> Lower(Replace(item)[k])]

\* C7: what get_document_financials returns is a mapping whose keys are
\* exactly the normalized names of the requested items, each with an
\* integer or the missing value.
C7_OutputKeys ==
    (pc = "ext_done" /\ ext.status = "returned")
        => /\ ext.value.kind = "dict"
           /\ DOMAIN ext.value.map = {Normalized(items[k]) : k \in 1..Len(items)}
           /\ \A k \in DOMAIN ext.value.map :
                 ext.value.map[k].type \in {"int", "NoneType"}

\* C8: after a crash within the persistence step the file still loads and
\* holds every entry it held for the fingerprints of other queries.
C8_CrashSafe ==
    [][(pc = "save" /\ pc' = "crashed")
          => \A fp \in DOMAIN pkl.dict :
                fp # items_query_hash(items)
                   => /\ pkl'.state = "valid"
                      /\ fp \in DOMAIN pkl'.dict
                      /\ pkl'.dict[fp] = pkl.dict[fp]]_vars

\* The sections with their start and end patterns.
SectionPatterns ==
    {<<"business", item1_start, item1_end>>,
     <<"risk", item1a_start, item1a_end>>,
     <<"mda", item7_start, item7_end>>,
     <<"financials", item8_start, item8_end>>}

\* The candidate ranges of a section: the offset of each start line with
\* the offset of the first end line after it (a later line has a greater
\* offset).
Candidates(text, reg_start, reg_end) ==
    LET n == Len(text)
        pairs == {p \in (1..n) \X (1..n) :
                     /\ text[p[1]] \in reg_start
                     /\ text[p[2]] \in reg_end
                     /\ p[1] < p[2]
                     /\ \A e \in 1..n :
                           (text[e] \in reg_end /\ p[1] < e) => p[2] <= e}
    IN  {<<StartOf(text, p[1]), StartOf(text, p[2])>> : p \in pairs}

Span(c) == c[2] - c[1]

\* C9: extract_10k_sections does not raise, and a section with no valid
\* pair of markers is the empty text.
C9_NotFoundIsEmpty ==
    located.status # "pending"
        => /\ located.status = "returned"
           /\ \A p \in SectionPatterns :
                 Candidates(text_10k, p[2], p[3]) = {}
                    => located.res[p[1]] = NoText

\* C10: the span get_section returns is text[s:e] of a candidate range, no
\* candidate is wider, and no candidate as wide starts earlier; it returns
\* one whenever there is a candidate.
C10_WidestSpan ==
    located.status # "pending"
        => \A p \in SectionPatterns :
              LET g == located.spans[p[1]]
                  cands == Candidates(text_10k, p[2], p[3])
              IN  /\ cands # {} => g.status = "ok"
                  /\ g.status = "ok"
                        => /\ g.range \in cands
                           /\ g.text = Slice(text_10k, g.range[1], g.range[2])
                           /\ \A d \in cands :
                                 \/ Span(d) < Span(g.range)
                                 \/ Span(d) = Span(g.range) /\ d[1] >= g.range[1]

\* A section with two widest candidates, of which the first was returned.
C10_Witness ==
    /\ located.status = "returned"
    /\ \E p \in SectionPatterns :
          LET g == located.spans[p[1]]
              cands == Candidates(text_10k, p[2], p[3])
          IN  /\ g.status = "ok"
              /\ \E d \in cands : Span(d) = Span(g.range) /\ d[1] > g.range[1]

\* C11: the persistence step stores the result of the run under the
\* fingerprint of its items as it is, with the failed years left out (all
\* of them, when every year failed); and a run with cache=True whose
\* fingerprint is in the file, and whose load of the file does not raise,
\* returns the stored entry within the call itself, with no oracle
\* invocation, whichever years the entry lacks.
C11_PersistAsIs ==
    [][/\ (pc = "save" /\ pc' = "returned")
             => /\ DOMAIN res = succeeded
                /\ pkl'.state = "valid"
                /\ items_query_hash(items) \in DOMAIN pkl'.dict
                /\ pkl'.dict[items_query_hash(items)] = res
       /\ (pc \in {"returned", "memoized", "raised", "crashed"} /\ cache'
              /\ pkl.state = "valid"
              /\ items_query_hash(items') \in DOMAIN pkl.dict
              /\ pc' # "raised")
             => /\ pc' = "returned"
                /\ result' = Result(pkl.dict[items_query_hash(items')])
                /\ called' = << >>
                /\ attempts' = 0]_vars

\* A cached run has returned, from the store, a result that lacks a sampled
\* year.
C11_Witness ==
    /\ pc = "returned"
    /\ cache
    /\ hit
    /\ DOMAIN result.map # Sampled(years)

\* C12: a store that does not load makes a cached run raise at the load,
\* before any year is processed; a call that raises within its first lines
\* (os.getcwd at line 101, whatever cache is; Path.exists, open or
\* pickle.load at lines 106-107, with cache=True) returns nothing, has
\* processed no year, leaves the file as it is, and is not recorded by
\* st.cache_data; a persistence step that does not write the store makes
\* the run raise and return nothing; and a run that misses returns only
\* with its store written.  The handler of the years' failures (the step
\* from "ext_done") has no part in either.
C12_StoreErrorsSurface ==
    [][/\ (pc \in {"idle", "returned", "memoized", "raised", "crashed"}
              /\ cache' /\ pkl.state = "truncated")
             => (pc' = "raised" /\ result' = NoResult /\ called' = << >>)
       /\ (pc \in {"idle", "returned", "memoized", "raised", "crashed"}
              /\ pc' = "raised")
             => /\ pkl' = pkl
                /\ result' = NoResult
                /\ called' = << >>
                /\ attempts' = 0
                /\ Args(items', cache') \notin DOMAIN memo'
       /\ (pc = "save" /\ pc' # "crashed"
              /\ pkl' # Valid(DictSet(save_dict, items_query_hash(items), res)))
             => (pc' = "raised" /\ result' = NoResult)
       /\ (pc' = "returned" /\ ~hit')
             => pkl' = Valid(DictSet(save_dict, items_query_hash(items), res))
       /\ pc' = "raised" => pc \notin {"loop", "gen", "parse", "ext_done"}]_vars

\* A call with cache=False has raised, and the file is cut off (by a write
\* that failed).
C12_Witness ==
    /\ pc = "raised"
    /\ ~cache
    /\ items # << >>
    /\ pkl = Truncated

\* The number of times x stands in the list.
Count(x, l) == Cardinality({k \in DOMAIN l : l[k] = x})

\* One list is the other in some order.
SameBag(A, B) ==
    /\ Len(A) = Len(B)
    /\ \A x \in Range(A) \cup Range(B) : Count(x, A) = Count(x, B)

QueryLists == SeqsUpTo({NetSales, GrossMargin, OtherKey}, MaxItems)

FingerprintIffPermutation ==
    \A A, B \in QueryLists :
        (items_query_hash(A) = items_query_hash(B)) <=> SameBag(A, B)

RunEnded == pc \in {"idle", "returned", "memoized", "raised", "crashed"}

\* C13: two item lists have the same fingerprint exactly when one is the
\* other in some order; a run with cache=True whose items are, in some
\* order, the items of a query in the store, and whose load of the file
\* does not raise, returns that query's entry with no oracle invocation;
\* and a run none of whose orders is in the store does not return from the
\* store.
C13_OrderIndependent ==
    [][/\ FingerprintIffPermutation
       /\ \A B \in ItemLists :
             (RunEnded /\ cache' /\ pkl.state = "valid"
                /\ items_query_hash(B) \in DOMAIN pkl.dict
                /\ SameBag(items', B)
                /\ pc' # "raised")
                => /\ pc' = "returned"
                   /\ hit'
                   /\ called' = << >>
                   /\ attempts' = 0
                   /\ result' = Result(pkl.dict[items_query_hash(B)])
       /\ (RunEnded
              /\ \A B \in ItemLists :
                    items_query_hash(B) \in DOMAIN pkl.dict
                       => ~SameBag(items', B))
             => (~hit' /\ pc' # "returned")]_vars

\* A cached run has returned from the store right after a returned run
\* whose items were the same in another order.
C13_Witness ==
    /\ pc = "returned"
    /\ cache
    /\ hit
    /\ prev # items
    /\ SameBag(prev, items)

\* C14: within a run the years get_document_financials is called for are
\* in strictly ascending order, whatever the order of the corpus.
C14_AscendingCalls ==
    \A a, b \in DOMAIN called : a < b => called[a] < called[b]

\* The lines of the text at the positions K, in their order.
RECURSIVE LinesAt(_, _)
LinesAt(text, K) ==
    IF text = << >> THEN << >>
    ELSE LET n == Len(text)
             rest == LinesAt(SubSeq(text, 1, n - 1), K)
         IN  IF n \in K THEN Append(rest, text[n]) ELSE rest

NoiseLines == {"label", "pageno", "footer", "pagebreak"}
BlankLines == {"blank", "cr"}

\* C15: clean_text removes the noise lines and the blank lines before the
\* first non-blank line, and nothing else: every line of content stays,
\* and so does a blank line after a non-blank line.
C15_SanitizerFrame ==
    cleaned # << >>
        => cleaned[1] =
              LinesAt(text_10k,
                  {k \in DOMAIN text_10k :
                      /\ text_10k[k] \notin NoiseLines
                      /\ text_10k[k] \in BlankLines
                            => \E j \in 1..(k - 1) :
                                  text_10k[j] \notin BlankLines})

\* C16: clean_text of what clean_text returned is what it returned.
C16_Idempotent ==
    Len(cleaned) = 2 => cleaned[2] = cleaned[1]

\* C17: when the response is a JSON object, either one of its values is
\* neither "N/A" nor coercible and the call raises a response-format error
\* and returns no mapping, or the call returns a mapping with the keys of
\* the object, the missing value for each "N/A" and int(value) for each
\* other value.
C17_Normalization ==
    (pc = "ext_done" /\ gen_res.kind = "object")
        => LET obj == gen_res.obj
           IN  IF \E k \in DOMAIN obj : obj[k] # NA /\ ~Coercible(obj[k])
               THEN /\ ext.status = "raised"
                    /\ ext.error \in FormatErrors
                    /\ ext.value.map = EmptyDict
               ELSE /\ ext.status = "returned"
                    /\ ext.value.kind = "dict"
                    /\ DOMAIN ext.value.map = DOMAIN obj
                    /\ \A k \in DOMAIN obj :
                          /\ obj[k] = NA => ext.value.map[k] = PyNone
                          /\ obj[k] # NA
                                => ext.value.map[k] = PyInt(IntOf(obj[k]))

\* The response {"N_s": "N/A", "g_m": "1000000"} has become
\* {"N_s": None, "g_m": 1000000}.
C17_Witness ==
    /\ pc = "ext_done"
    /\ DOMAIN gen_res.obj = {Replace(NetSales), Replace(GrossMargin)}
    /\ gen_res.obj[Replace(NetSales)] = NA
    /\ gen_res.obj[Replace(GrossMargin)] = "\"1000000\""
    /\ ext.status = "returned"
    /\ ext.value.map[Replace(NetSales)] = [type |-> "NoneType", val |-> 0]
    /\ ext.value.map[Replace(GrossMargin)] = [type |-> "int", val |-> 1000000]

\* C18: a call with cache=False that neither raises nor is killed goes
\* into the loop with an empty store, whatever the file holds; it returns
\* only after a call of get_document_financials, with at least one oracle
\* invocation, for every sampled year, and what it returns is the result
\* of those calls, which the file then holds under the fingerprint of its
\* items.  No call with cache=False is answered without them.
C18_CacheBypass ==
    [][/\ (RunEnded /\ pc' \notin {"crashed", "raised"}
              /\ (IF pc' = "memoized" THEN ~answered'[2] ELSE ~cache'))
             => (pc' = "loop" /\ ~hit' /\ save_dict' = EmptyDict)
       /\ pc' = "ext_done" => attempts' >= 1
       /\ (pc' = "returned" /\ ~cache')
             => /\ ~hit'
                /\ Range(called') = Sampled(years)
                /\ DOMAIN res = succeeded
                /\ result' = Result(res)
                /\ pkl'.state = "valid"
                /\ pkl'.dict[items_query_hash(items)] = res]_vars

\* C19: a call of get_document_financials makes at most 3 oracle
\* invocations, whatever the oracle does at each of them.
C19_AtMostThreeInvocations ==
    attempts <= 3

\* C20: the call that returns from the store (line 114) leaves the file
\* as it was, and the run is over with it.
C20_HitWritesNothing ==
    [][(RunEnded /\ hit') => (pc' = "returned" /\ pkl' = pkl)]_vars

\* A run has returned from a store that holds the entries of two queries.
C20_Witness ==
    /\ pc = "returned"
    /\ hit
    /\ pkl.state = "valid"
    /\ Cardinality(DOMAIN pkl.dict) = 2
    /\ result = Result(pkl.dict[items_query_hash(items)])

\* C21: within a call, an invocation that raises and is followed by
\* another is followed by one time.sleep before it; the third invocation
\* that raises ends the call with its exception and no time.sleep; no
\* other step sleeps; so a call sleeps at most twice.
C21_BackoffPlacement ==
    [][/\ (fails' = fails + 1 /\ fails' <= 2)
             => (waits' = waits + 1 /\ pc' = "gen")
       /\ (fails' = fails + 1 /\ fails' > 2)
             => /\ waits' = waits
                /\ pc' = "ext_done"
                /\ ext' = Raised("OracleError")
       /\ fails' = fails => waits' = waits
       /\ waits' <= 2]_vars

\* The third failure of a call has been raised, after two sleeps.
C21_Witness ==
    /\ pc = "ext_done"
    /\ ext = Raised("OracleError")
    /\ fails = 3
    /\ waits = 2

====
